---------------------------- MODULE Spec2Model ----------------------------
(***************************************************************************)
(* Moonraker integration for Home Assistant: the config-entry setup, the   *)
(* MoonrakerDataUpdateCoordinator (query document, refresh cycle, fetch    *)
(* path) of custom_components/moonraker/__init__.py.                       *)
(*                                                                         *)
(* Python dicts are functions over their keys, lists are sequences, the    *)
(* value None is the string None.  Every await of the code is a position   *)
(* (pc) at which the transport may drop its connection.                    *)
(***************************************************************************)
EXTENDS Naturals, Sequences, FiniteSets, TLC

\* ------------------------------------------------------------------ bounds
MaxThumbs  == 2     \* longest thumbnails list of a metadata response
MaxSetups  == 2     \* setup runs (coordinators constructed) per behaviour
MaxSensors == 2     \* descriptors in a sensor list (builder specification)
MaxSubs    == 2     \* subscriptions of one descriptor (builder specification)
MaxAdds    == 4     \* add_query_objects calls on one document (adder specification)

\* ------------------------------------------------------------ python values
None      == "<None>"
EmptyDict == [k \in {} |-> k]

Put(d, k, v) == [j \in DOMAIN d \cup {k} |-> IF j = k THEN v ELSE d[j]]

\* d.pop(k)
Pop(d, k) == [j \in DOMAIN d \ {k} |-> d[j]]

\* {**a, **b}: the keys of both, b's value where both have the key
Splat(a, b) == [k \in DOMAIN a \cup DOMAIN b |-> IF k \in DOMAIN b THEN b[k] ELSE a[k]]

Last(s) == s[Len(s)]

SeqsUpTo(S, n) == UNION {[1..m -> S] : m \in 0..n}

\* const.py
OBJ       == "objects"
HOSTNAME  == "hostname"
PLATFORMS == <<"sensor", "camera">>
ENTRY_ID  == "entry"

\* sensor.py: the static sensor list, each descriptor its subscriptions
SENSORS == << <<<<"toolhead", "position">>, <<"print_stats", "filename">>>>,
              <<<<"print_stats", "filename">>>> >>

\* ------------------------------------------------------- the remote server
Filenames == {"a.gcode", "b.gcode"}

PrintStats == {Put(EmptyDict, "filename", f) : f \in Filenames \cup {"", None}}
                 \cup {EmptyDict}

StatusResults == {Put(EmptyDict, "print_stats", p) : p \in PrintStats} \cup {EmptyDict}

\* what printer.objects.query may answer: with or without status, print_stats,
\* filename; and answers that carry the snapshot's own two keys
QueryResults ==
    {Put(EmptyDict, "status", s) : s \in StatusResults}
      \cup {EmptyDict}
      \cup {Put(Put(Put(EmptyDict, "status", [print_stats |-> [filename |-> f]]),
                    "thumbnails", "q.png"),
                "printer.info", [hostname |-> "stale"]) : f \in {"", "a.gcode"}}

InfoResults == {[hostname |-> "voron"], [state |-> "error"]}

ThumbEntries == {[relative_path |-> ".thumbs/s.png"],
                 [relative_path |-> ".thumbs/l.png"],
                 [width |-> "32"]}

\* what server.files.metadata may answer
MetaResults ==
    {Put([size |-> "1"], "thumbnails", t) : t \in SeqsUpTo(ThumbEntries, MaxThumbs)}
      \cup {[size |-> "1"]}

CameraResults == {[webcams |-> <<>>], [webcams |-> <<"cam">>]}

Results(method) ==
    CASE method = "printer.objects.query" -> QueryResults
      [] method = "printer.info"          -> InfoResults
      [] method = "server.files.metadata" -> MetaResults
      [] OTHER                            -> CameraResults

\* entry.options: which platforms the user switched off
Options == {EmptyDict, [camera |-> FALSE], [sensor |-> TRUE, camera |-> TRUE]}

\* ------------------------------------------------------------------- state
VARIABLES
    op,                  \* the running operation: none, setup, tick, cameras,
                         \* unload, reload, build, adding
    pc,                  \* its position (the await it is suspended at)
    stage,               \* query_path of the _async_fetch_data in progress
    connected,           \* moonraker.client.is_connected
    query,               \* _async_update_data's local: the query result
    info,                \* _async_update_data's local: the info result
    gcode_filename,      \* _async_get_thumbnail's argument
    outcome,             \* how the last refresh / listCameras that ended, ended
    trace,               \* events of the running (or last) operation
    sensors,             \* SENSORS
    query_obj,           \* coordinator.query_obj
    loads,               \* times load_all_sensor_data ran for this coordinator
    platforms,           \* coordinator.platforms, of every coordinator built
    api_device_name,     \* coordinator.api_device_name
    coordinator,         \* identity of the coordinator object (0: none built)
    data,                \* coordinator.data: the stored Snapshot
    last_update_success, \* coordinator.last_update_success
    registry,            \* hass.data[DOMAIN]: entry_id -> coordinator
    forwarded,           \* platforms forwarded to the host, in order
    options,             \* entry.options
    setup_result,        \* how the last setup run ended
    setups,              \* setup runs so far
    listening            \* the entry's update listener is registered

vars == <<op, pc, stage, connected, query, info, gcode_filename, outcome, trace,
          sensors, query_obj, loads, platforms, api_device_name, coordinator,
          data, last_update_success, registry, forwarded, options,
          setup_result, setups, listening>>

coordVars == <<query_obj, loads, platforms, api_device_name, coordinator>>
hostVars  == <<data, last_update_success>>
entryVars == <<registry, forwarded, options, setup_result, setups, sensors,
               listening>>
localVars == <<query, info, gcode_filename>>

Ev(e, m, p) == [ev |-> e, method |-> m, payload |-> p]

NoOutcome == [kind |-> "none", value |-> EmptyDict]

\* -------------------------------------------------- Query Registry Builder
\* add_query_objects without its second test: the key is appended again
add_query_objects_appends(objs, query_object, result_key) ==
    LET withKey == IF query_object \notin DOMAIN objs
                   THEN Put(objs, query_object, <<>>)
                   ELSE objs
    IN  Put(withKey, query_object, Append(withKey[query_object], result_key))

\* add_query_objects, on the dict under query_obj[OBJ]
add_query_objects(objs, query_object, result_key) ==
    LET withKey == IF query_object \notin DOMAIN objs
                   THEN Put(objs, query_object, <<>>)
                   ELSE objs
    IN  IF result_key \notin {withKey[query_object][i] :
                                 i \in 1..Len(withKey[query_object])}
        THEN Put(withKey, query_object, Append(withKey[query_object], result_key))
        ELSE withKey

\* all subscriptions of all sensors, in the order of the two loops
RECURSIVE Flatten(_)
Flatten(descs) ==
    IF descs = <<>> THEN <<>> ELSE Head(descs) \o Flatten(Tail(descs))

RECURSIVE AddAll(_, _)
AddAll(objs, subs) ==
    IF subs = <<>> THEN objs
    ELSE AddAll(add_query_objects(objs, Head(subs)[1], Head(subs)[2]), Tail(subs))

\* load_all_sensor_data, on query_obj = {OBJ: {}}
load_all_sensor_data(qobj, descs) ==
    Put(qobj, OBJ, AddAll(qobj[OBJ], Flatten(descs)))

\* an optional value: <<>> is None, <<v>> is v
Nothing   == <<>>
Some(v)   == <<v>>

\* ---------------------------------------------------------------- transport
\* api.start(): the connect attempt ends connected or not, and does not raise
start_outcomes == BOOLEAN

\* client.call_method(path, **kwargs): a result of the method, only while
\* connected; it may raise in any case
call_results(path, is_connected) == IF is_connected THEN Results(path) ELSE {}

\* ------------------------------------------------- pieces of the coordinator
\* the check of line 114 left out: start() is never awaited
never_restart(is_connected) == FALSE

\* line 114: if not self.moonraker.client.is_connected
needs_restart(is_connected) == ~is_connected

\* lines 118-123: the keyword arguments call_method gets
kwargs(query_object) == IF query_object = Nothing THEN EmptyDict ELSE query_object[1]

\* the check of line 57 left out: the first refresh's failure is ignored
first_refresh_ignored(success) == FALSE

\* line 57: if not coordinator.last_update_success
first_refresh_failed(success) == ~success

\* line 131 passing self.query_obj instead of None
query_object_of_always_query(path, qobj, filename) ==
    CASE path = "server.files.metadata" -> Some([filename |-> filename])
      [] OTHER                            -> Some(qobj)

\* line 95 passing a fresh {OBJ: {}} instead of self.query_obj
query_object_of_fresh(path, qobj, filename) ==
    CASE path = "printer.objects.query" -> Some(Put(EmptyDict, OBJ, EmptyDict))
      [] path = "server.files.metadata" -> Some([filename |-> filename])
      [] OTHER                            -> Nothing

\* lines 95, 96, 105-106, 131: the query_object each caller passes
query_object_of(path, qobj, filename) ==
    CASE path = "printer.objects.query" -> Some(qobj)
      [] path = "server.files.metadata" -> Some([filename |-> filename])
      [] OTHER                            -> Nothing

\* line 98: query["status"]["print_stats"]["filename"], Nothing on a KeyError
filename_of(q) ==
    IF "status" \in DOMAIN q
    THEN IF "print_stats" \in DOMAIN q["status"]
         THEN IF "filename" \in DOMAIN q["status"]["print_stats"]
              THEN Some(q["status"]["print_stats"]["filename"])
              ELSE Nothing
         ELSE Nothing
    ELSE Nothing

\* line 103: the filenames for which no metadata is asked
no_thumbnail(filename) == filename = None \/ filename = ""

\* lines 107-111 indexing at 0: the first thumbnail instead of the last
thumbnail_of_first(gcode) ==
    IF "thumbnails" \notin DOMAIN gcode
    THEN [kind |-> "KeyError", value |-> EmptyDict]
    ELSE IF Len(gcode["thumbnails"]) = 0
    THEN [kind |-> "IndexError", value |-> EmptyDict]
    ELSE IF "relative_path" \notin DOMAIN Head(gcode["thumbnails"])
    THEN [kind |-> "KeyError", value |-> EmptyDict]
    ELSE [kind |-> "ok",
          value |-> [thumbnails |-> Head(gcode["thumbnails"])["relative_path"]]]

\* lines 107-111: gcode["thumbnails"][len(gcode["thumbnails"]) - 1]["relative_path"]
\* an empty list is indexed at -1
thumbnail_of(gcode) ==
    IF "thumbnails" \notin DOMAIN gcode
    THEN [kind |-> "KeyError", value |-> EmptyDict]
    ELSE IF Len(gcode["thumbnails"]) = 0
    THEN [kind |-> "IndexError", value |-> EmptyDict]
    ELSE IF "relative_path" \notin DOMAIN Last(gcode["thumbnails"])
    THEN [kind |-> "KeyError", value |-> EmptyDict]
    ELSE [kind |-> "ok",
          value |-> [thumbnails |-> Last(gcode["thumbnails"])["relative_path"]]]

\* line 100 splatted in the reverse order: the query result's keys win
merge_query_wins(q, i, thumbnail) == Splat(Splat(thumbnail, "printer.info" :> i), q)

\* line 100: {**query, **{"printer.info": info}, **thumbnail}
merge(q, i, thumbnail) == Splat(Splat(q, "printer.info" :> i), thumbnail)

\* the except clause swallowing a failed metadata call: the refresh returns
\* what it has, without a thumbnail
call_raised_partial(path, q, i) ==
    IF path = "server.files.metadata"
    THEN [kind |-> "snapshot", value |-> merge(q, i, [thumbnails |-> None])]
    ELSE [kind |-> "UpdateFailed", value |-> EmptyDict]

\* the except clause returning an empty result instead of raising
call_raised_returns_empty(path, q, i) == [kind |-> "snapshot", value |-> EmptyDict]

\* no except clause: the transport's exception leaves as it is
call_raised_unwrapped(path, q, i) == [kind |-> "ConnectionError", value |-> EmptyDict]

\* the except clause issuing the same call again
call_raised_retried(path, q, i) == [kind |-> "retry", value |-> EmptyDict]

\* the except clause swallowing the exception: the caller gets an empty result
\* and goes on
call_raised_swallowed(path, q, i) == [kind |-> "returned", value |-> EmptyDict]

\* lines 126-127: an exception of call_method leaves _async_fetch_data as
\* UpdateFailed, whatever the call and whatever was fetched before it
call_raised(path, q, i) == [kind |-> "UpdateFailed", value |-> EmptyDict]

\* line 96 left out: the thumbnail is looked up right after the query
next_call_skips_info(path) ==
    CASE path = "printer.objects.query" -> "server.files.metadata"
      [] path = "printer.info"          -> "server.files.metadata"
      [] OTHER                            -> "done"

\* lines 95-97: the call _async_update_data makes after the one that returned
next_call(path) ==
    CASE path = "printer.objects.query" -> "printer.info"
      [] path = "printer.info"          -> "server.files.metadata"
      [] OTHER                            -> "done"

\* ----------------------------------------------------------------- initial
Init ==
    /\ op = "none" /\ pc = "idle" /\ stage = "none"
    /\ connected = FALSE
    /\ query = EmptyDict /\ info = EmptyDict /\ gcode_filename = None
    /\ outcome = NoOutcome
    /\ trace = <<>>
    /\ sensors = SENSORS
    /\ query_obj = EmptyDict /\ loads = 0 /\ platforms = <<>>
    /\ api_device_name = None /\ coordinator = 0
    /\ data = Nothing /\ last_update_success = FALSE
    /\ registry = EmptyDict /\ forwarded = <<>>
    /\ options \in Options
    /\ setup_result = "none" /\ setups = 0
    /\ listening = FALSE

\* ------------------------------------------------------- async_setup_entry
\* lines 34-41: a new client, then await api.start()
begin_setup(before) ==
    /\ op' = "setup" /\ pc' = "setup_start" /\ stage' = "none"
    /\ setups' = setups + 1
    /\ connected' = FALSE
    /\ setup_result' = "none" /\ outcome' = NoOutcome
    /\ trace' = Append(before, Ev("setup_start", "setup", EmptyDict))
    /\ query' = EmptyDict /\ info' = EmptyDict /\ gcode_filename' = None

\* the host sets up an entry that has no coordinator registered
async_setup_entry ==
    /\ op = "none" /\ ENTRY_ID \notin DOMAIN registry /\ setups < MaxSetups
    /\ begin_setup(<<>>)
    /\ UNCHANGED <<coordVars, hostVars, registry, forwarded, options, sensors,
                   listening>>

\* line 41 returns; lines 43-45: the probe is issued under the timeout
setup_start_returns ==
    /\ pc = "setup_start"
    /\ \E ok \in start_outcomes :
         /\ connected' = ok
         /\ trace' = trace \o
              <<Ev(IF ok THEN "setup_start_ok" ELSE "setup_start_failed", "setup", EmptyDict),
                Ev("probe", "setup", EmptyDict)>>
    /\ pc' = "probe"
    /\ UNCHANGED <<op, stage, localVars, outcome, coordVars, hostVars, entryVars>>

\* the coordinators the registry still refers to; the others are garbage
referenced(plats) ==
    [c \in {registry[e] : e \in DOMAIN registry} \cap DOMAIN plats |-> plats[c]]

\* lines 51-53, 82-91: the coordinator is constructed; line 55 starts the
\* first refresh (line 95)
construct(name) ==
    /\ coordinator' = setups
    /\ platforms' = Put(referenced(platforms), setups, <<>>)
    /\ api_device_name' = name
    /\ query_obj' = load_all_sensor_data(Put(EmptyDict, OBJ, EmptyDict), sensors)
    /\ loads' = 1
    /\ data' = Nothing /\ last_update_success' = TRUE

\* lines 48-49: raise ConfigEntryNotReady
not_ready(why) ==
    /\ setup_result' = "not_ready"
    /\ op' = "none" /\ pc' = "idle" /\ stage' = "none"
    /\ trace' = Append(trace, Ev(why, "setup", EmptyDict))

\* lines 45-49: the probe returns, raises or times out; KeyError on HOSTNAME
setup_probe_returns ==
    /\ pc = "probe"
    /\ \/ \E r \in call_results("printer.info", connected) :
            IF HOSTNAME \in DOMAIN r
            THEN /\ construct(r[HOSTNAME])
                 /\ pc' = "fetch" /\ stage' = "printer.objects.query"
                 /\ trace' = Append(trace, Ev("probe_return", "setup", r))
                 /\ UNCHANGED <<op, setup_result>>
            ELSE /\ not_ready("probe_KeyError")
                 /\ UNCHANGED <<coordVars, hostVars>>
       \/ \E why \in {"probe_raise", "probe_timeout"} :
            /\ not_ready(why)
            /\ UNCHANGED <<coordVars, hostVars>>
    /\ UNCHANGED <<connected, localVars, outcome, registry, forwarded, options,
                   setups, sensors, listening>>

\* ------------------------------------------- _async_update_data, fetch path
\* how _async_update_data (or async_get_cameras) ends: with a value or raising
finish(o) ==
    /\ outcome' = o
    /\ IF op = "cameras"
       THEN op' = "none" /\ pc' = "idle"
       ELSE op' = op /\ pc' = "refresh_done"
    /\ stage' = "none"

\* lines 114-123: the connected check; then start() is awaited, or the call
\* is issued at once
_async_fetch_data ==
    /\ pc = "fetch"
    /\ LET checked == Ev(IF connected THEN "connected" ELSE "disconnected",
                         stage, EmptyDict)
       IN  IF needs_restart(connected)
           THEN /\ pc' = "start"
                /\ trace' = trace \o <<checked, Ev("start", stage, EmptyDict)>>
           ELSE /\ pc' = "call"
                /\ trace' = trace \o
                     <<checked,
                       Ev("call", stage,
                          kwargs(query_object_of(stage, query_obj, gcode_filename)))>>
    /\ UNCHANGED <<op, stage, connected, localVars, outcome, coordVars, hostVars,
                   entryVars>>

\* line 116 returns; lines 117-123 issue the call
fetch_start_returns ==
    /\ pc = "start"
    /\ \E ok \in start_outcomes :
         /\ connected' = ok
         /\ trace' = trace \o
              <<Ev(IF ok THEN "start_ok" ELSE "start_failed", stage, EmptyDict),
                Ev("call", stage,
                   kwargs(query_object_of(stage, query_obj, gcode_filename)))>>
    /\ pc' = "call"
    /\ UNCHANGED <<op, stage, localVars, outcome, coordVars, hostVars, entryVars>>

\* lines 97-111 up to the metadata call: the filename is read from the query
\* result and the thumbnail is None, or the metadata call is the next one
_async_get_thumbnail(q, i) ==
    LET name == filename_of(q)
    IN  IF name = Nothing
        THEN /\ finish([kind |-> "KeyError", value |-> EmptyDict])
             /\ UNCHANGED gcode_filename
        ELSE /\ gcode_filename' = name[1]
             /\ IF no_thumbnail(name[1])
                THEN finish([kind |-> "snapshot",
                             value |-> merge(q, i, [thumbnails |-> None])])
                ELSE /\ stage' = "server.files.metadata" /\ pc' = "fetch"
                     /\ UNCHANGED <<op, outcome>>

\* lines 95-111, 131: what the caller does with the result of a call
fetch_returned(r) ==
    CASE stage = "printer.objects.query" ->
           /\ query' = r
           /\ UNCHANGED info
           /\ IF next_call(stage) = "printer.info"
              THEN /\ stage' = "printer.info" /\ pc' = "fetch"
                   /\ UNCHANGED <<op, outcome, gcode_filename>>
              ELSE _async_get_thumbnail(r, info)
      [] stage = "printer.info" ->
           /\ info' = r
           /\ UNCHANGED query
           /\ _async_get_thumbnail(query, r)
      [] stage = "server.files.metadata" ->
           /\ UNCHANGED localVars
           /\ LET t == thumbnail_of(r)
              IN  IF t.kind = "ok"
                  THEN finish([kind |-> "snapshot", value |-> merge(query, info, t.value)])
                  ELSE finish([kind |-> t.kind, value |-> EmptyDict])
      [] OTHER ->
           /\ UNCHANGED localVars
           /\ finish([kind |-> "result", value |-> r])

\* lines 119-127: call_method returns its result, or raises and the exception
\* is raised again as UpdateFailed
fetch_call_returns ==
    /\ pc = "call"
    /\ \/ \E r \in call_results(stage, connected) :
            /\ trace' = Append(trace, Ev("return", stage, r))
            /\ fetch_returned(r)
       \/ LET o == call_raised(stage, query, info)
          IN  /\ trace' = trace \o <<Ev("raise", stage, EmptyDict),
                                     Ev(o.kind, stage, EmptyDict)>>
              /\ CASE o.kind = "retry" ->
                        /\ pc' = "fetch"
                        /\ UNCHANGED <<op, stage, outcome, localVars>>
                   [] o.kind = "returned" -> fetch_returned(o.value)
                   [] OTHER ->
                        /\ finish(o)
                        /\ UNCHANGED localVars
    /\ UNCHANGED <<connected, coordVars, hostVars, entryVars>>

\* ------------------------------------------------------ the host scheduler
\* DataUpdateCoordinator.async_refresh around _async_update_data: a Snapshot is
\* stored and the update counts as successful; anything raised leaves the
\* stored Snapshot and the update counts as failed
async_refresh_record ==
    /\ pc = "refresh_done"
    /\ IF outcome.kind = "snapshot"
       THEN data' = Some(outcome.value) /\ last_update_success' = TRUE
       ELSE data' = data /\ last_update_success' = FALSE
    /\ IF op = "setup"
       THEN op' = op /\ pc' = "setup_check"
       ELSE op' = "none" /\ pc' = "idle"
    /\ UNCHANGED <<stage, connected, localVars, outcome, trace, coordVars, entryVars>>

\* the timer is due: nothing is running and the entry's coordinator is set up
tick_due == op = "none" /\ ENTRY_ID \in DOMAIN registry

\* the timer: the next refresh of a coordinator that was set up
tick ==
    /\ tick_due
    /\ op' = "tick" /\ pc' = "fetch" /\ stage' = "printer.objects.query"
    /\ query' = EmptyDict /\ info' = EmptyDict /\ gcode_filename' = None
    /\ outcome' = NoOutcome /\ trace' = <<>>
    /\ UNCHANGED <<connected, coordVars, hostVars, entryVars>>

\* the transport loses its connection
disconnect ==
    /\ connected
    /\ connected' = FALSE
    /\ UNCHANGED <<op, pc, stage, localVars, outcome, trace, coordVars, hostVars,
                   entryVars>>

\* ------------------------------------------------ async_setup_entry, the end
\* line 62: entry.options.get(platform, True)
enabled(opts, platform) == IF platform \in DOMAIN opts THEN opts[platform] ELSE TRUE

\* lines 57-68: not ready after a failed first refresh; else the coordinator is
\* stored, the enabled platforms are recorded and forwarded, and the update
\* listener is registered
setup_finish ==
    /\ pc = "setup_check"
    /\ IF first_refresh_failed(last_update_success)
       THEN /\ not_ready("refresh_failed")
            /\ UNCHANGED <<registry, forwarded, platforms, listening>>
       ELSE /\ registry' = Put(registry, ENTRY_ID, coordinator)
            /\ LET on == SelectSeq(PLATFORMS, LAMBDA p : enabled(options, p))
               IN  /\ platforms' = Put(platforms, coordinator,
                                       platforms[coordinator] \o on)
                   /\ forwarded' = forwarded \o on
            /\ listening' = TRUE
            /\ setup_result' = "ok"
            /\ op' = "none" /\ pc' = "idle" /\ stage' = "none"
            /\ UNCHANGED trace
    /\ UNCHANGED <<connected, localVars, outcome, query_obj, loads, api_device_name,
                   coordinator, hostVars, options, setups, sensors>>

\* ------------------------------------------------------- async_get_cameras
\* line 131: one _async_fetch_data("server.webcams.list", None)
async_get_cameras ==
    /\ op = "none" /\ ENTRY_ID \in DOMAIN registry
    /\ op' = "cameras" /\ pc' = "fetch" /\ stage' = "server.webcams.list"
    /\ trace' = <<>>
    /\ UNCHANGED <<connected, localVars, outcome, coordVars, hostVars, entryVars>>

\* ------------------------------------------------------------ specification
Next ==
    \/ async_setup_entry
    \/ setup_start_returns
    \/ setup_probe_returns
    \/ _async_fetch_data
    \/ fetch_start_returns
    \/ fetch_call_returns
    \/ async_refresh_record
    \/ setup_finish
    \/ tick
    \/ async_get_cameras
    \/ disconnect

Spec == Init /\ [][Next]_vars

\* ------------------------------------------------------ async_unload_entry
\* lines 153-155 without the test of line 155: every platform is unloaded
to_unload_all(plats) == PLATFORMS

\* lines 153-155: for platform in PLATFORMS if platform in coordinator.platforms
to_unload(plats) ==
    SelectSeq(PLATFORMS, LAMBDA p : \E k \in DOMAIN plats : plats[k] = p)

\* line 150: all(...) of the gathered results
all(results) == \A k \in DOMAIN results : results[k]

\* a reload that gives up when the unload reported failure
setup_only_if_unloaded(unloaded) == unloaded

\* lines 167-168: async_setup_entry is awaited whatever async_unload_entry
\* returned
setup_after_unload(unloaded) == TRUE

\* lines 149-158: the entry's coordinator is looked up (KeyError when the
\* registry has none) and the unloads of its platforms are gathered
begin_unload(who) ==
    IF ENTRY_ID \notin DOMAIN registry
    THEN /\ op' = "none" /\ pc' = "idle"
         /\ outcome' = [kind |-> "KeyError", value |-> EmptyDict]
         /\ trace' = <<Ev("unload_KeyError", who, EmptyDict)>>
    ELSE LET asked == to_unload(platforms[registry[ENTRY_ID]])
         IN  /\ op' = who /\ pc' = "unloading"
             /\ outcome' = NoOutcome
             /\ trace' = [k \in 1..Len(asked) |->
                             Ev("forward_unload", asked[k], EmptyDict)]

\* the host unloads an entry it has set up
async_unload_entry ==
    /\ op = "none" /\ listening
    /\ begin_unload("unload")
    /\ UNCHANGED <<stage, connected, localVars, coordVars, hostVars, entryVars>>

\* lines 165-167: the update listener runs after the entry's options were
\* updated; the unload comes first
async_reload_entry ==
    /\ op = "none" /\ listening /\ setups < MaxSetups
    /\ options' \in Options
    /\ begin_unload("reload")
    /\ UNCHANGED <<stage, connected, localVars, coordVars, hostVars, registry,
                   forwarded, setup_result, setups, sensors, listening>>

\* lines 150-162: the gathered unloads have ended, each with its result; the
\* coordinator is popped if all are true; async_unload_entry returns.  Line
\* 168: in a reload async_setup_entry begins.  The host drops the update
\* listener of an entry it has unloaded.
unload_returns ==
    /\ pc = "unloading"
    /\ \E results \in [1..Len(trace) -> BOOLEAN] :
         LET unloaded == all(results)
             returned == Append(trace,
                                Ev("unload_return", op,
                                   [coordinator |-> registry[ENTRY_ID],
                                    results |-> results,
                                    unloaded |-> unloaded]))
         IN  /\ registry' = IF unloaded THEN Pop(registry, ENTRY_ID) ELSE registry
             /\ IF op = "reload" /\ setup_after_unload(unloaded)
                THEN /\ begin_setup(returned)
                     /\ UNCHANGED listening
                ELSE /\ op' = "none" /\ pc' = "idle"
                     /\ outcome' = [kind |-> "result",
                                    value |-> [unloaded |-> unloaded]]
                     /\ trace' = returned
                     /\ listening' = (listening /\ ~(op = "unload" /\ unloaded))
                     /\ UNCHANGED <<stage, connected, localVars, setup_result, setups>>
    /\ UNCHANGED <<coordVars, hostVars, forwarded, options, sensors>>

\* ------------------------------------------- the life cycle of the entry
NextLifecycle ==
    \/ async_setup_entry
    \/ setup_start_returns
    \/ setup_probe_returns
    \/ _async_fetch_data
    \/ fetch_start_returns
    \/ fetch_call_returns
    \/ async_refresh_record
    \/ setup_finish
    \/ disconnect
    \/ async_unload_entry
    \/ async_reload_entry
    \/ unload_returns

SpecLifecycle == Init /\ [][NextLifecycle]_vars

\* ------------------------------------- the builder over every sensor list
Paths  == {"toolhead", "print_stats"}
Fields == {"position", "filename"}

Descriptors == SeqsUpTo(Paths \X Fields, MaxSubs)
SensorLists == SeqsUpTo(Descriptors, MaxSensors)

InitBuild ==
    /\ op = "build" /\ pc = "idle" /\ stage = "none"
    /\ connected = FALSE
    /\ query = EmptyDict /\ info = EmptyDict /\ gcode_filename = None
    /\ outcome = NoOutcome
    /\ trace = <<>>
    /\ sensors \in SensorLists
    /\ query_obj = EmptyDict /\ loads = 0 /\ platforms = <<>>
    /\ api_device_name = None /\ coordinator = 0
    /\ data = Nothing /\ last_update_success = FALSE
    /\ registry = EmptyDict /\ forwarded = <<>>
    /\ options = EmptyDict
    /\ setup_result = "none" /\ setups = 0
    /\ listening = FALSE

\* lines 88-89: self.query_obj = {OBJ: {}}; self.load_all_sensor_data()
build ==
    /\ op = "build"
    /\ op' = "built"
    /\ query_obj' = load_all_sensor_data(Put(EmptyDict, OBJ, EmptyDict), sensors)
    /\ loads' = loads + 1
    /\ UNCHANGED <<pc, stage, connected, localVars, outcome, trace, platforms,
                   api_device_name, coordinator, hostVars, entryVars>>

NextBuild == build

SpecBuild == InitBuild /\ [][NextBuild]_vars

\* --------------------------- add_query_objects from every query document
\* line 88: the document before any subscription is added
InitAdd ==
    /\ op = "adding" /\ pc = "idle" /\ stage = "none"
    /\ connected = FALSE
    /\ query = EmptyDict /\ info = EmptyDict /\ gcode_filename = None
    /\ outcome = NoOutcome
    /\ trace = <<>>
    /\ sensors = <<>>
    /\ query_obj = Put(EmptyDict, OBJ, EmptyDict) /\ loads = 0 /\ platforms = <<>>
    /\ api_device_name = None /\ coordinator = 0
    /\ data = Nothing /\ last_update_success = FALSE
    /\ registry = EmptyDict /\ forwarded = <<>>
    /\ options = EmptyDict
    /\ setup_result = "none" /\ setups = 0
    /\ listening = FALSE

\* lines 139-144: one call add_query_objects(query_object, result_key); the
\* event keeps the document before and after it
add_query_objects_call ==
    /\ op = "adding" /\ Len(trace) < MaxAdds
    /\ \E p \in Paths, f \in Fields :
         /\ query_obj' = Put(query_obj, OBJ, add_query_objects(query_obj[OBJ], p, f))
         /\ trace' = Append(trace, Ev("add", p, [result_key |-> f,
                                                 before |-> query_obj,
                                                 after |-> query_obj']))
    /\ UNCHANGED <<op, pc, stage, connected, localVars, outcome, loads, platforms,
                   api_device_name, coordinator, hostVars, entryVars>>

NextAdd == add_query_objects_call

SpecAdd == InitAdd /\ [][NextAdd]_vars

\* ================================================================== claims
Indices(e) == {i \in DOMAIN trace : trace[i].ev = e}

IndicesOf(e, m) == {i \in DOMAIN trace : trace[i].ev = e /\ trace[i].method = m}

\* the trace is that of a refresh (it starts at the query's connected check)
InRefresh == \E i \in DOMAIN trace : trace[i].method = "printer.objects.query"

\* _async_update_data has returned or raised
RefreshEnded == InRefresh /\ outcome.kind # "none"

\* C1: when call_method raises in one of the three calls of a refresh, the
\* refresh ends with exactly one UpdateFailed and with no Snapshot, whatever
\* the earlier calls returned
C1_RaiseIsOneUpdateFailed ==
    (InRefresh /\ Indices("raise") # {}) =>
        /\ outcome = [kind |-> "UpdateFailed", value |-> EmptyDict]
        /\ Cardinality(Indices("UpdateFailed")) = 1
        /\ Cardinality(Indices("raise")) = 1

\* C1 witness: the metadata call, the last of the three, raised after the query
\* and the info call had returned
C1_Witness ==
    /\ IndicesOf("raise", "server.files.metadata") # {}
    /\ IndicesOf("return", "printer.info") # {}
    /\ outcome.kind = "UpdateFailed"

\* C2 (as claimed): a refresh ends with a Snapshot or with UpdateFailed, never
\* with any other exception
C2_OnlySnapshotOrUpdateFailed ==
    RefreshEnded => outcome.kind \in {"snapshot", "UpdateFailed"}

\* the metadata response of this refresh has an empty thumbnails list
EmptyThumbnails ==
    \E i \in IndicesOf("return", "server.files.metadata") :
        /\ "thumbnails" \in DOMAIN trace[i].payload
        /\ trace[i].payload["thumbnails"] = <<>>

\* C3 (as claimed): with an empty thumbnails list in the metadata response the
\* refresh returns a Snapshot whose thumbnails entry is None
C3_EmptyThumbnailsGiveNone ==
    EmptyThumbnails =>
        /\ outcome.kind = "snapshot"
        /\ outcome.value["thumbnails"] = None

\* the filename is the empty string, None, or not a key of print_stats
FilenameEmptyOrAbsent(r) ==
    /\ "status" \in DOMAIN r
    /\ "print_stats" \in DOMAIN r["status"]
    /\ \/ "filename" \notin DOMAIN r["status"]["print_stats"]
       \/ r["status"]["print_stats"]["filename"] \in {"", None}

\* C4 (as claimed): when the query result's filename is empty or absent, no
\* metadata call is issued in that refresh, and once the info call has returned
\* the refresh returns a Snapshot whose thumbnails entry is None
C4_NoFilenameNoMetadata ==
    \A i \in IndicesOf("return", "printer.objects.query") :
        FilenameEmptyOrAbsent(trace[i].payload) =>
            /\ IndicesOf("call", "server.files.metadata") = {}
            /\ IndicesOf("return", "printer.info") # {} =>
                   /\ outcome.kind = "snapshot"
                   /\ outcome.value["thumbnails"] = None

\* C5: every call of the fetch path directly follows a check of the connected
\* flag that found it set, or a start() that was issued after the check found
\* it unset and that has returned; start() is issued only after such a check
C5_ReconnectBeforeCall ==
    \A j \in DOMAIN trace :
        /\ trace[j].ev = "call" =>
              \/ /\ j > 1
                 /\ trace[j - 1] = Ev("connected", trace[j].method, EmptyDict)
              \/ /\ j > 3
                 /\ trace[j - 1].ev \in {"start_ok", "start_failed"}
                 /\ trace[j - 2].ev = "start"
                 /\ trace[j - 3].ev = "disconnected"
                 /\ \A k \in 1..3 : trace[j - k].method = trace[j].method
        /\ trace[j].ev = "start" => (j > 1 /\ trace[j - 1].ev = "disconnected")
        /\ trace[j].ev = "disconnected" => (j < Len(trace) /\ trace[j + 1].ev = "start")
        /\ trace[j].ev = "connected" => (j < Len(trace) /\ trace[j + 1].ev = "call")

\* C5 witness: listCameras found the transport disconnected, the reconnect
\* succeeded and the call returned
C5_Witness ==
    /\ IndicesOf("start_ok", "server.webcams.list") # {}
    /\ IndicesOf("return", "server.webcams.list") # {}

\* C6: after a reconnect attempt that failed, the pending call is issued all
\* the same; it is that call which raises, and the operation ends there with
\* UpdateFailed
C6_FailedReconnectNotSurfaced ==
    \A j \in Indices("start_failed") :
        /\ j < Len(trace)
        /\ trace[j + 1].ev = "call"
        /\ trace[j + 1].method = trace[j].method
        /\ j + 1 < Len(trace) =>
              /\ Len(trace) >= j + 3
              /\ trace[j + 2].ev = "raise"
              /\ trace[j + 3].ev = "UpdateFailed"
              /\ \A k \in DOMAIN trace : k > j + 3 => trace[k].method = "setup"
              /\ outcome = [kind |-> "UpdateFailed", value |-> EmptyDict]

\* C6 witness: in a refresh the reconnect before the info call failed and the
\* info call raised
C6_Witness ==
    /\ InRefresh
    /\ \E j \in IndicesOf("start_failed", "printer.info") : Len(trace) = j + 3

\* the host records the refresh that has just ended
HostRecords == pc = "refresh_done" /\ pc' # "refresh_done"

\* the refresh failed: a call raised, or it did not return a Snapshot
RefreshFailed == Indices("raise") # {} \/ outcome.kind # "snapshot"

\* C7: when the host records a failed refresh, the stored Snapshot and the rest
\* of the coordinator stay as they were and last_update_success is false; when
\* it records a successful one, the stored Snapshot is the one returned and
\* last_update_success is true; after a tick, either way, the timer is due again
C7_FailedTickKeepsSnapshot ==
    [][HostRecords =>
          /\ IF RefreshFailed
             THEN /\ data' = data
                  /\ last_update_success' = FALSE
                  /\ UNCHANGED <<registry, forwarded, coordVars>>
             ELSE /\ data' = Some(outcome.value)
                  /\ last_update_success' = TRUE
          /\ op = "tick" => tick_due']_vars

\* C7 witness: a tick failed after the metadata call while a Snapshot of an
\* earlier refresh is stored, and the timer is due
C7_Witness ==
    /\ tick_due
    /\ IndicesOf("raise", "server.files.metadata") # {}
    /\ ~last_update_success
    /\ data # Nothing

ProbeReturned == Indices("probe_return") # {}

\* C8: the registry and the forwarded platforms change only in the step that
\* ends a setup run as set up, which is taken only after the probe returned and
\* the first refresh returned a Snapshot; a run in which the probe did not
\* return or the first refresh failed ends not ready, and no step of a run
\* that does not end as set up touches the registry or forwards a platform
C8_SetupStoresOnlyAfterSuccess ==
    [][/\ (registry' # registry \/ forwarded' # forwarded
              \/ (setup_result' = "ok" /\ setup_result # "ok")) =>
             /\ op = "setup" /\ op' = "none"
             /\ ProbeReturned
             /\ outcome.kind = "snapshot"
             /\ last_update_success
             /\ setup_result' = "ok"
             /\ registry' = Put(registry, ENTRY_ID, coordinator)
       /\ (op = "setup" /\ op' = "none"
             /\ ~(ProbeReturned /\ outcome.kind = "snapshot")) =>
             /\ setup_result' = "not_ready"
             /\ UNCHANGED <<registry, forwarded>>]_vars

\* C8 witness: a setup run ended not ready because its first refresh failed,
\* after the coordinator was constructed; nothing is registered or forwarded
C8_Witness ==
    /\ setup_result = "not_ready"
    /\ Indices("refresh_failed") # {}
    /\ coordinator > 0
    /\ registry = EmptyDict /\ forwarded = <<>>

CallOrder == <<"printer.objects.query", "printer.info", "server.files.metadata">>

\* C9: the calls of a refresh are a prefix of query, info, metadata; a call is
\* issued only when the one before it has returned; the metadata call carries
\* the non-empty filename of this refresh's query result
C9_SequentialCalls ==
    InRefresh =>
        LET calls == SelectSeq(trace, LAMBDA e : e.ev = "call")
        IN  /\ Len(calls) <= Len(CallOrder)
            /\ \A k \in 1..Len(calls) : calls[k].method = CallOrder[k]
            /\ \A j, k \in Indices("call") :
                  j < k => /\ trace[j + 1].ev = "return"
                           /\ trace[j + 1].method = trace[j].method
                           /\ j + 1 < k
            /\ \A j \in IndicesOf("call", "server.files.metadata") :
                  \E i \in IndicesOf("return", "printer.objects.query") :
                      /\ i < j
                      /\ filename_of(trace[i].payload) # Nothing
                      /\ filename_of(trace[i].payload)[1] \notin {"", None}
                      /\ trace[j].payload =
                            [filename |-> filename_of(trace[i].payload)[1]]

\* C9 witness: a tick whose metadata call carried b.gcode and returned, while
\* the stored Snapshot was that of a refresh over another file
C9_Witness ==
    /\ op = "tick"
    /\ \E j \in IndicesOf("call", "server.files.metadata") :
          trace[j].payload = [filename |-> "b.gcode"]
    /\ IndicesOf("return", "server.files.metadata") # {}
    /\ data # Nothing
    /\ filename_of(data[1]) = Some("a.gcode")

ToSet(seq) == {seq[i] : i \in DOMAIN seq}

\* C10: the query document built from a sensor list has, under OBJ, exactly the
\* object paths of the list's subscriptions as keys, and under each key exactly
\* the field names subscribed for that path, each once
C10_QueryDocumentIsUnion ==
    op = "built" =>
        LET subs == ToSet(Flatten(sensors))
            objs == query_obj[OBJ]
        IN  /\ DOMAIN query_obj = {OBJ}
            /\ DOMAIN objs = {s[1] : s \in subs}
            /\ \A k \in DOMAIN objs :
                  /\ ToSet(objs[k]) = {s[2] : s \in {t \in subs : t[1] = k}}
                  /\ Len(objs[k]) = Cardinality(ToSet(objs[k]))

\* C10 witness: the list [(toolhead, position), (print_stats, filename)],
\* [(print_stats, filename)] gave {toolhead: [position], print_stats: [filename]}
C10_Witness ==
    /\ op = "built"
    /\ sensors = SENSORS
    /\ query_obj[OBJ] = [toolhead |-> <<"position">>, print_stats |-> <<"filename">>]

\* the pair (path, key) is in the document
Subscribed(doc, path, key) ==
    /\ path \in DOMAIN doc[OBJ]
    /\ key \in ToSet(doc[OBJ][path])

\* C11: a call of add_query_objects for a pair the document already holds
\* leaves the document as it was, and a second call with the arguments of the
\* call right before it leaves the document that first call left
C11_AddIsIdempotent ==
    \A i \in Indices("add") :
        /\ Subscribed(trace[i].payload.before, trace[i].method,
                      trace[i].payload.result_key) =>
               trace[i].payload.after = trace[i].payload.before
        /\ (/\ i > 1
            /\ trace[i - 1].method = trace[i].method
            /\ trace[i - 1].payload.result_key = trace[i].payload.result_key) =>
               trace[i].payload.after = trace[i - 1].payload.after

\* C11 witness: (toolhead, position) was added twice in a row to a document
\* that held print_stats and toolhead without position; the first call changed it
C11_Witness ==
    \E i \in Indices("add") :
        /\ i > 1
        /\ trace[i].method = "toolhead" /\ trace[i].payload.result_key = "position"
        /\ trace[i - 1].method = "toolhead"
        /\ trace[i - 1].payload.result_key = "position"
        /\ trace[i - 1].payload.before[OBJ] =
              [print_stats |-> <<"filename">>, toolhead |-> <<"filename">>]
        /\ trace[i - 1].payload.after # trace[i - 1].payload.before

\* C12: when the metadata call returns a thumbnails list of length 1 or more
\* whose last element has a relative_path, the refresh returns a Snapshot whose
\* thumbnails entry is that relative_path
C12_ThumbnailIsLastRelativePath ==
    \A i \in IndicesOf("return", "server.files.metadata") :
        LET g == trace[i].payload
        IN  (/\ "thumbnails" \in DOMAIN g
             /\ Len(g["thumbnails"]) >= 1
             /\ "relative_path" \in DOMAIN g["thumbnails"][Len(g["thumbnails"])]) =>
                /\ outcome.kind = "snapshot"
                /\ outcome.value["thumbnails"] =
                      g["thumbnails"][Len(g["thumbnails"])]["relative_path"]

\* C12 witness: the list held s.png and then l.png, and the Snapshot has l.png
C12_Witness ==
    /\ \E i \in IndicesOf("return", "server.files.metadata") :
          /\ "thumbnails" \in DOMAIN trace[i].payload
          /\ trace[i].payload["thumbnails"] = <<[relative_path |-> ".thumbs/s.png"],
                                             [relative_path |-> ".thumbs/l.png"]>>
    /\ outcome.kind = "snapshot"
    /\ outcome.value["thumbnails"] = ".thumbs/l.png"

\* C13: the query document is built once, in the constructor
\* (load_all_sensor_data runs exactly once per coordinator), no later step
\* changes it, and every printer.objects.query call is sent that document
C13_QueryDocumentFixedAfterConstruction ==
    [][/\ coordinator' = coordinator => (query_obj' = query_obj /\ loads' = loads)
       /\ coordinator' # coordinator =>
             /\ loads' = 1
             /\ query_obj' = load_all_sensor_data(Put(EmptyDict, OBJ, EmptyDict), sensors)
       /\ \A i \in DOMAIN trace' :
             (trace'[i].ev = "call" /\ trace'[i].method = "printer.objects.query") =>
                 /\ trace'[i].payload = query_obj'
                 /\ trace'[i].payload =
                       load_all_sensor_data(Put(EmptyDict, OBJ, EmptyDict), sensors)]_vars

\* C13 witness: a tick later than the first refresh reconnects and sends the
\* document the constructor built
C13_Witness ==
    /\ op = "tick" /\ loads = 1
    /\ IndicesOf("start", "printer.objects.query") # {}
    /\ \E i \in IndicesOf("call", "printer.objects.query") :
          /\ trace[i].payload = query_obj
          /\ DOMAIN trace[i].payload[OBJ] # {}

RefreshMethods == {"printer.objects.query", "printer.info", "server.files.metadata"}

\* C14: within one refresh each of the three methods is called at most once
\* and start() is awaited at most once per call (at most three calls and
\* three reconnects per tick), and nothing is called or reconnected after a
\* call has raised
C14_NoRetryInsideTick ==
    InRefresh =>
        /\ \A m \in RefreshMethods :
              /\ Cardinality(IndicesOf("call", m)) <= 1
              /\ Cardinality(IndicesOf("start", m)) <= 1
              /\ \A i \in IndicesOf("start", m) : \A j \in IndicesOf("call", m) : i < j
        /\ Cardinality(Indices("call")) <= 3
        /\ Cardinality(Indices("start")) <= 3
        /\ \A i \in Indices("raise") : \A j \in DOMAIN trace :
              j > i => trace[j].ev \notin {"call", "start"}

\* C14 witness: a refresh of three calls, each after a reconnect, the last of
\* which raised
C14_Witness ==
    /\ InRefresh
    /\ \A m \in RefreshMethods :
          Cardinality(IndicesOf("call", m)) = 1 /\ Cardinality(IndicesOf("start", m)) = 1
    /\ IndicesOf("raise", "server.files.metadata") # {}
    /\ outcome.kind = "UpdateFailed"

\* C15: a Snapshot holds the keys of the query result plus "printer.info" and
\* "thumbnails"; "printer.info" is the info call's result and "thumbnails" the
\* thumbnail looked up, also when the query result has keys of these names;
\* every other key has the query result's value
C15_InfoAndThumbnailsTakePrecedence ==
    (InRefresh /\ outcome.kind = "snapshot") =>
        \A a \in IndicesOf("return", "printer.objects.query") :
        \A b \in IndicesOf("return", "printer.info") :
            LET q   == trace[a].payload
                i   == trace[b].payload
                own == {"printer.info", "thumbnails"}
                g   == IndicesOf("return", "server.files.metadata")
            IN  /\ DOMAIN outcome.value = DOMAIN q \cup own
                /\ outcome.value["printer.info"] = i
                /\ g = {} => outcome.value["thumbnails"] = None
                /\ \A c \in g :
                      outcome.value["thumbnails"] =
                          Last(trace[c].payload["thumbnails"])["relative_path"]
                /\ \A k \in DOMAIN q \ own : outcome.value[k] = q[k]

\* C15 witness: the query result had both keys, with other values than the
\* Snapshot has
C15_Witness ==
    /\ InRefresh /\ outcome.kind = "snapshot"
    /\ \E a \in IndicesOf("return", "printer.objects.query") :
          /\ {"printer.info", "thumbnails"} \subseteq DOMAIN trace[a].payload
          /\ trace[a].payload["printer.info"] # outcome.value["printer.info"]
          /\ trace[a].payload["thumbnails"] # outcome.value["thumbnails"]
    /\ IndicesOf("return", "server.files.metadata") # {}

\* C16: an invocation of async_get_cameras issues server.webcams.list and
\* nothing else, once and with no parameters; the call comes after the
\* connected check and, if that found the client disconnected, after start();
\* the invocation returns the call's result as it is, or raises UpdateFailed if
\* the call raised; it ends only after its own call, also when an earlier
\* invocation has already returned a result
C16_CamerasOneCallEachTime ==
    LET calls == Indices("call")
        cam   == "server.webcams.list"
    IN  /\ op = "cameras" =>
              /\ \A i \in DOMAIN trace : trace[i].method = cam
              /\ Cardinality(calls) <= 1
              /\ pc = "call" => Cardinality(calls) = 1
              /\ \A i \in calls :
                    /\ trace[i].payload = EmptyDict
                    /\ \/ i = 2 /\ trace[1].ev = "connected"
                       \/ /\ i = 4 /\ trace[1].ev = "disconnected" /\ trace[2].ev = "start"
                          /\ trace[3].ev \in {"start_ok", "start_failed"}
        /\ \A i \in IndicesOf("return", cam) :
              /\ Cardinality(calls) = 1 /\ \A j \in calls : j = i - 1
              /\ outcome = [kind |-> "result", value |-> trace[i].payload]
        /\ \A i \in IndicesOf("raise", cam) :
              /\ Cardinality(calls) = 1 /\ \A j \in calls : j = i - 1
              /\ outcome.kind = "UpdateFailed"

\* C16 witness: an invocation has returned a result, and the next one has
\* reconnected and issued its own call
C16_Witness ==
    /\ op = "cameras" /\ pc = "call"
    /\ outcome.kind = "result"
    /\ IndicesOf("start", "server.webcams.list") # {}
    /\ Cardinality(IndicesOf("call", "server.webcams.list")) = 1

\* C17: a refresh ends, raising, at the first call that raises: when
\* printer.objects.query raised, nothing of printer.info or of
\* server.files.metadata happened in this refresh (no connected check, no
\* start(), no call); when printer.info raised, nothing of
\* server.files.metadata happened
C17_AbortsAtFirstFailingCall ==
    /\ \A i \in IndicesOf("raise", "printer.objects.query") :
          /\ outcome.kind = "UpdateFailed"
          /\ \A j \in DOMAIN trace :
                trace[j].method \notin {"printer.info", "server.files.metadata"}
    /\ \A i \in IndicesOf("raise", "printer.info") :
          /\ outcome.kind = "UpdateFailed"
          /\ \A j \in DOMAIN trace : trace[j].method # "server.files.metadata"

\* C17 witness: printer.info raised while disconnected, after a query result
\* whose filename would have led to the metadata call
C17_Witness ==
    /\ IndicesOf("raise", "printer.info") # {}
    /\ filename_of(query) = Some("a.gcode")
    /\ ~connected
    /\ outcome.kind = "UpdateFailed"

\* C18: the step that ends a setup as set up records in coordinator.platforms
\* the platforms enabled in the entry's options; async_unload_entry asks to
\* unload exactly the platforms of the registered coordinator, in the order of
\* PLATFORMS; its result is true if and only if every unload's is; the
\* coordinator leaves the registry if it is, and stays registered if not; and
\* that boolean is what async_unload_entry returns
C18_UnloadPopsIffAllUnloaded ==
    [][/\ (pc = "setup_check" /\ setup_result' = "ok") =>
             /\ platforms'[coordinator] =
                   SelectSeq(PLATFORMS, LAMBDA p : enabled(options, p))
             /\ registry'[ENTRY_ID] = coordinator
       /\ (pc = "unloading" /\ pc' # "unloading") =>
             LET c     == registry[ENTRY_ID]
                 asked == [k \in 1..Len(trace) |-> trace[k].method]
                 r     == trace'[Len(trace) + 1].payload
             IN  /\ \A k \in 1..Len(trace) : trace[k].ev = "forward_unload"
                 /\ asked = SelectSeq(PLATFORMS, LAMBDA p : p \in ToSet(platforms[c]))
                 /\ DOMAIN r.results = DOMAIN asked
                 /\ r.unloaded = (\A k \in DOMAIN r.results : r.results[k])
                 /\ r.unloaded => ENTRY_ID \notin DOMAIN registry'
                 /\ ~r.unloaded => (registry' = registry /\ registry'[ENTRY_ID] = c)
                 /\ op = "unload" =>
                       outcome' = [kind |-> "result",
                                   value |-> [unloaded |-> r.unloaded]]]_vars

\* C18 witness: sensor unloaded and camera did not; async_unload_entry returned
\* False and the coordinator is still registered
C18_Witness ==
    /\ op = "none"
    /\ \E i \in IndicesOf("unload_return", "unload") :
          /\ i = 3 /\ trace[1].method = "sensor" /\ trace[2].method = "camera"
          /\ trace[i].payload.results = <<TRUE, FALSE>>
          /\ registry = Put(EmptyDict, ENTRY_ID, trace[i].payload.coordinator)
    /\ outcome = [kind |-> "result", value |-> [unloaded |-> FALSE]]

\* C19: in a reload nothing of the setup happens before the unload has
\* returned; when it has returned, true or false, the setup begins; and when
\* that setup ends as set up, the registry holds one coordinator, the one this
\* setup constructed, and not the one that was registered before the reload
C19_ReloadUnloadsThenSetsUp ==
    \A i \in IndicesOf("unload_return", "reload") :
        /\ \A k \in 1..(i - 1) : trace[k].ev = "forward_unload"
        /\ Len(trace) > i
        /\ trace[i + 1].ev = "setup_start"
        /\ setup_result = "ok" =>
              /\ registry = Put(EmptyDict, ENTRY_ID, coordinator)
              /\ coordinator = setups
              /\ coordinator # trace[i].payload.coordinator

\* C19 witness: a reload whose unload reported failure and whose setup ended
\* as set up: coordinator 2 is registered in the place of coordinator 1
C19_Witness ==
    /\ setup_result = "ok" /\ op = "none"
    /\ \E i \in IndicesOf("unload_return", "reload") :
          /\ ~trace[i].payload.unloaded
          /\ trace[i].payload.coordinator = 1
    /\ registry = Put(EmptyDict, ENTRY_ID, 2)

=============================================================================
